---- MODULE Spec2Model ----
(***************************************************************************)
(* ComponentEnvGraph (src/src/index.ts) with its file reconciliation       *)
(* (src/src/files.ts), its directive/import extraction                     *)
(* (src/src/analyze.ts) and its classifier (classify.ts, carried in        *)
(* src/README.md lines 118-233).                                           *)
(*                                                                         *)
(* The ts-morph Project is modelled as the set of source files it holds,   *)
(* each with the statements it parsed when the file was last read.  The    *)
(* file system is the set of files on disk, each with its statements.  A   *)
(* module specifier is written as the path it would resolve to; it         *)
(* resolves iff that file exists.                                          *)
(***************************************************************************)
EXTENDS Integers, Sequences, FiniteSets, TLC

VARIABLES
  disk,            \* file system under rootDir: path -> statements
  tsInclude,       \* the files the tsconfig.json names (fixed per run)
  userExclude,     \* options.exclude (fixed per run)
  project,         \* this.project: path -> statements as last parsed
  nodes,           \* this.nodes: Map<string, FileNode>
  listeners,       \* this._onDidUpdate: registered "update" listeners
  last,            \* record of the last build() call
  builtDisk,       \* the file system as it was at the last build() (or at construction)
  numBuilds,       \* build() calls so far
  numEdits,        \* file-system edits so far
  cnodes,          \* classifier run: the node store handed to computeComponentTypes
  ctypes,          \* classifier run: the mapping it returned
  cdone,           \* classifier run: whether computeComponentTypes has returned
  stext,           \* extractor run: the text of the file given to the parser
  extracted        \* extractor run: what hasUseClientDirective returned

vars == <<disk, tsInclude, userExclude, project, nodes, listeners, last,
          builtDisk, numBuilds, numEdits, cnodes, ctypes, cdone, stext, extracted>>

(***************************************************************************)
(* Bounds                                                                  *)
(***************************************************************************)
MaxBuilds == 2
MaxEdits == 2
MaxChanged == 1
MaxListeners == 2
MaxEdges == 3
MaxItems == 3
MaxImports == 4

(***************************************************************************)
(* Sequences and JS Map / Set                                              *)
(***************************************************************************)
Range(s) == {s[i] : i \in 1..Len(s)}

SeqsUpTo(S, n) == UNION {[1..k -> S] : k \in 0..n}

\* A JS Map: its keys in insertion order, and its values.
EmptyMap == [keys |-> <<>>, val |-> [k \in {} |-> TRUE]]

MapHas(m, k) == k \in DOMAIN m.val

MapGet(m, k) == m.val[k]

MapKeySet(m) == DOMAIN m.val

MapSet(m, k, v) ==
  [keys |-> IF MapHas(m, k) THEN m.keys ELSE Append(m.keys, k),
   val  |-> [q \in (DOMAIN m.val) \cup {k} |-> IF q = k THEN v ELSE m.val[q]]]

\* Map.delete that removes nothing.
MapDeleteNothing(m, k) == m

MapDelete(m, k) ==
  [keys |-> SelectSeq(m.keys, LAMBDA q : q # k),
   val  |-> [q \in (DOMAIN m.val) \ {k} |-> m.val[q]]]

\* A JS Set<string>: its members in insertion order.
SetAdd(s, x) == IF x \in Range(s) THEN s ELSE Append(s, x)

\* A function with one key removed / one key set.
Without(f, k) == [q \in (DOMAIN f) \ {k} |-> f[q]]

With(f, k, v) == [q \in (DOMAIN f) \cup {k} |-> IF q = k THEN v ELSE f[q]]

(***************************************************************************)
(* Paths and exclusion patterns                                            *)
(***************************************************************************)
\* Paths relative to rootDir; all carry a .ts/.tsx extension.
Paths == {"Parent.tsx", "vendor/a.tsx", "a.stories.tsx"}

\* project.getSourceFiles() order.
PathOrder == <<"Parent.tsx", "a.stories.tsx", "vendor/a.tsx">>

\* What a glob looks at: the directories of the path and its file-name suffix.
PathDirs(p) == IF p = "vendor/a.tsx" THEN <<"vendor">> ELSE <<>>

PathSuffix(p) == IF p = "a.stories.tsx" THEN ".stories.tsx" ELSE ".tsx"

Pattern(kind, arg) == [kind |-> kind, arg |-> arg]

DEFAULT_EXCLUDE ==
  << Pattern("suffix", ".stories.tsx"),   \* "**/*.stories.tsx"
     Pattern("suffix", ".stories.ts"),    \* "**/*.stories.ts"
     Pattern("suffix", ".spec.ts"),       \* "**/*.spec.ts"
     Pattern("suffix", ".spec.tsx"),      \* "**/*.spec.tsx"
     Pattern("suffix", ".test.ts"),       \* "**/*.test.ts"
     Pattern("suffix", ".test.tsx"),      \* "**/*.test.tsx"
     Pattern("suffix", ".d.ts"),          \* "**/*.d.ts"
     Pattern("suffix", ".config.ts"),     \* "**/*.config.ts"
     Pattern("suffix", ".config.tsx"),    \* "**/*.config.tsx"
     Pattern("anydir", "__mocks__"),      \* "**/__mocks__/**"
     Pattern("rootdir", "node_modules"),  \* "node_modules/**"
     Pattern("rootdir", ".git"),          \* ".git/**"
     Pattern("rootdir", ".next"),         \* ".next/**"
     Pattern("rootdir", "dist"),          \* "dist/**"
     Pattern("rootdir", "out"),           \* "out/**"
     Pattern("rootdir", "build"),         \* "build/**"
     Pattern("rootdir", "coverage") >>    \* "coverage/**"

\* options.exclude as the tests give it: nothing, or ["vendor/**"].
UserExcludes == {<<>>, <<Pattern("rootdir", "vendor")>>}

\* minimatch(target, path.join(rootDir, pattern), { dot: true })
minimatch(p, pat) ==
  CASE pat.kind = "suffix"  -> PathSuffix(p) = pat.arg
    [] pat.kind = "anydir"  -> pat.arg \in Range(PathDirs(p))
    [] pat.kind = "rootdir" -> Len(PathDirs(p)) > 0 /\ PathDirs(p)[1] = pat.arg
    [] OTHER -> FALSE

\* this.excludePatterns = [...DEFAULT_EXCLUDE, ...(options?.exclude || [])]
excludePatterns(uex) == DEFAULT_EXCLUDE \o uex

isGlobExcluded(uex, absPath) ==
  \E i \in 1..Len(excludePatterns(uex)) : minimatch(absPath, excludePatterns(uex)[i])

(***************************************************************************)
(* Source text and its analysis                                            *)
(***************************************************************************)
Stmt(kind, text) == [kind |-> kind, text |-> text]

UseClientStmt == Stmt("ExpressionStatement", "\"use client\";")

ImportDecl(target) == Stmt("ImportDeclaration", target)

ExportDecl(target) == Stmt("ExportDeclaration", target)

VariableStmt == Stmt("VariableStatement", "export const X = () => null;")

\* A file whose read fails with EACCES (permission denied); the marker stands in the
\* file system for the content that cannot be read.
Unreadable == <<Stmt("Unreadable", "EACCES")>>

\* fs.readFileSync(p) returns the text of p.
CanRead(fs, p) == p \in DOMAIN fs /\ fs[p] # Unreadable

\* A file with a syntax error: the parser recovers and yields the statements it found.
InvalidSource == <<Stmt("VariableStatement", "export const = ;")>>

\* hasUseClientDirective that looks for the directive at any statement.
hasUseClientDirectiveAnywhere(sf) ==
  \E i \in 1..Len(sf) :
    /\ sf[i].kind = "ExpressionStatement"
    /\ sf[i].text \in {"'use client'", "\"use client\"",
                       "'use client';", "\"use client\";"}

hasUseClientDirective(sf) ==
  IF Len(sf) > 0
    THEN /\ sf[1].kind = "ExpressionStatement"
         /\ sf[1].text \in {"'use client'", "\"use client\"",
                            "'use client';", "\"use client\";"}
    ELSE FALSE

\* imp.getModuleSpecifierSourceFile(): the file the specifier resolves to, if it exists.
ModuleSpecifierTargets(sf, kind, fs) ==
  LET decls == SelectSeq(sf, LAMBDA s : s.kind = kind)
      files == [i \in 1..Len(decls) |-> decls[i].text]
  IN  SelectSeq(files, LAMBDA f : f \in DOMAIN fs)

\* getStaticImports that returns the import declarations' files only.
getStaticImportsOfImports(sf, fs) == ModuleSpecifierTargets(sf, "ImportDeclaration", fs)

getStaticImports(sf, fs) ==
  ModuleSpecifierTargets(sf, "ImportDeclaration", fs)
    \o ModuleSpecifierTargets(sf, "ExportDeclaration", fs)

FileNode(filePath, isClient, imports) ==
  [filePath |-> filePath, isClient |-> isClient, imports |-> imports, type |-> "undefined"]

(***************************************************************************)
(* classify.ts: computeComponentTypes                                      *)
(***************************************************************************)
\* Array.from(nodes.values()).filter((n) => n.isClient).map((n) => n.filePath)
\* getClientEntries that returns the first client-marked node alone.
getClientEntriesFirstOnly(ns) ==
  LET entries == SelectSeq(ns.keys, LAMBDA k : MapGet(ns, k).isClient)
  IN  [i \in 1..(IF Len(entries) = 0 THEN 0 ELSE 1) |-> MapGet(ns, entries[i]).filePath]

getClientEntries(ns) ==
  LET entries == SelectSeq(ns.keys, LAMBDA k : MapGet(ns, k).isClient)
  IN  [i \in 1..Len(entries) |-> MapGet(ns, entries[i]).filePath]

RECURSIVE visit(_, _, _)
RECURSIVE visitImports(_, _, _, _)
\* The closure visit of getClientReachable; reach is the clientReachable set so far.
visit(ns, fp, reach) ==
  IF fp \in reach
    THEN reach
    ELSE IF ~MapHas(ns, fp)
           THEN reach \cup {fp}
           ELSE visitImports(ns, MapGet(ns, fp).imports, 1, reach \cup {fp})

\* The loop over node.imports leaving after its first round.
visitImportsFirstOnly(ns, imports, i, reach) ==
  IF Len(imports) = 0
    THEN reach
    ELSE IF MapHas(ns, imports[1]) THEN visit(ns, imports[1], reach) ELSE reach

\* for (const imp of node.imports) { if (nodes.has(imp)) visit(imp) }
visitImports(ns, imports, i, reach) ==
  IF i > Len(imports)
    THEN reach
    ELSE visitImports(ns, imports, i + 1,
                      IF MapHas(ns, imports[i]) THEN visit(ns, imports[i], reach)
                                                ELSE reach)

RECURSIVE visitEntries(_, _, _, _)
\* for (const entry of clientEntries) { visit(entry) }
visitEntries(ns, entries, i, reach) ==
  IF i > Len(entries)
    THEN reach
    ELSE visitEntries(ns, entries, i + 1, visit(ns, entries[i], reach))

\* getClientReachable that stops at the direct imports of the client entries.
getClientReachableDirect(ns, clientEntries) ==
  Range(clientEntries) \cup
    {imp \in MapKeySet(ns) :
       \E e \in Range(clientEntries) : MapHas(ns, e) /\ imp \in Range(MapGet(ns, e).imports)}

getClientReachable(ns, clientEntries) == visitEntries(ns, clientEntries, 1, {})

RECURSIVE initNodeTypesFrom(_, _, _, _)
initNodeTypesFrom(ns, clientReachable, i, types) ==
  IF i > Len(ns.keys)
    THEN types
    ELSE initNodeTypesFrom(ns, clientReachable, i + 1,
           MapSet(types, ns.keys[i],
                  IF ns.keys[i] \in clientReachable THEN "client" ELSE "server"))

\* initNodeTypes with the two branches of its conditional swapped.
initNodeTypesSwapped(ns, clientReachable) ==
  initNodeTypesFrom(ns, MapKeySet(ns) \ clientReachable, 1, EmptyMap)

initNodeTypes(ns, clientReachable) == initNodeTypesFrom(ns, clientReachable, 1, EmptyMap)

RECURSIVE collectImportersOf(_, _, _, _)
\* The inner loop of collectImporters: the imports of one node fp.
collectImportersOf(fp, imports, j, importers) ==
  IF j > Len(imports)
    THEN importers
    ELSE collectImportersOf(fp, imports, j + 1,
           MapSet(importers, imports[j],
                  SetAdd(IF MapHas(importers, imports[j])
                           THEN MapGet(importers, imports[j]) ELSE <<>>, fp)))

RECURSIVE collectImportersFrom(_, _, _)
collectImportersFrom(ns, i, importers) ==
  IF i > Len(ns.keys)
    THEN importers
    ELSE collectImportersFrom(ns, i + 1,
           collectImportersOf(ns.keys[i], MapGet(ns, ns.keys[i]).imports, 1, importers))

collectImporters(ns) == collectImportersFrom(ns, 1, EmptyMap)

RECURSIVE isUniversalTypeFrom(_, _, _, _, _)
\* The loop of isUniversalType with its two flags.
isUniversalTypeFrom(types, importers, i, hasClient, hasServer) ==
  IF i > Len(importers)
    THEN FALSE
    ELSE LET t  == IF MapHas(types, importers[i]) THEN MapGet(types, importers[i])
                                                  ELSE "undefined"
             hc == hasClient \/ t = "client"
             hs == hasServer \/ t = "server"
         IN  IF hc /\ hs THEN TRUE
                         ELSE isUniversalTypeFrom(types, importers, i + 1, hc, hs)

\* isUniversalType with a loop that starts at the second importer.
isUniversalTypeFromSecond(types, importers) ==
  isUniversalTypeFrom(types, importers, 2, FALSE, FALSE)

isUniversalType(types, importers) == isUniversalTypeFrom(types, importers, 1, FALSE, FALSE)

RECURSIVE computeUniversalSetFromAnyNode(_, _, _, _, _)
\* computeUniversalSet without the test that skips the client-marked nodes.
computeUniversalSetFromAnyNode(ns, importers, types, i, universal) ==
  IF i > Len(ns.keys)
    THEN universal
    ELSE LET fp == ns.keys[i]
         IN  computeUniversalSetFromAnyNode(ns, importers, types, i + 1,
               IF /\ MapHas(importers, fp)
                  /\ isUniversalType(types, MapGet(importers, fp))
                 THEN SetAdd(universal, fp)
                 ELSE universal)

RECURSIVE computeUniversalSetFrom(_, _, _, _, _)
computeUniversalSetFrom(ns, importers, types, i, universal) ==
  IF i > Len(ns.keys)
    THEN universal
    ELSE LET fp == ns.keys[i]
         IN  computeUniversalSetFrom(ns, importers, types, i + 1,
               IF /\ ~MapGet(ns, fp).isClient
                  /\ MapHas(importers, fp)
                  /\ isUniversalType(types, MapGet(importers, fp))
                 THEN SetAdd(universal, fp)
                 ELSE universal)

RECURSIVE computeUniversalSetInPlaceFrom(_, _, _, _, _)
computeUniversalSetInPlaceFrom(ns, importers, types, i, universal) ==
  IF i > Len(ns.keys)
    THEN universal
    ELSE LET fp == ns.keys[i]
             promote == /\ ~MapGet(ns, fp).isClient
                        /\ MapHas(importers, fp)
                        /\ isUniversalType(types, MapGet(importers, fp))
         IN  computeUniversalSetInPlaceFrom(ns, importers,
               IF promote THEN MapSet(types, fp, "universal") ELSE types, i + 1,
               IF promote THEN SetAdd(universal, fp) ELSE universal)

\* computeUniversalSet writing each promotion into the types it reads from.
computeUniversalSetInPlace(ns, importers, types) ==
  computeUniversalSetInPlaceFrom(ns, importers, types, 1, <<>>)

RECURSIVE setUniversalEarly(_, _, _)
setUniversalEarly(types, universalSet, i) ==
  IF i > Len(universalSet)
    THEN types
    ELSE setUniversalEarly(MapSet(types, universalSet[i], "universal"), universalSet, i + 1)

\* computeUniversalSet deciding on the types that result from a first round of promotion.
computeUniversalSetOnResultTypes(ns, importers, types) ==
  computeUniversalSetFrom(ns, importers,
    setUniversalEarly(types, computeUniversalSetFrom(ns, importers, types, 1, <<>>), 1),
    1, <<>>)

computeUniversalSet(ns, importers, types) ==
  computeUniversalSetFrom(ns, importers, types, 1, <<>>)

RECURSIVE setUniversal(_, _, _)
\* for (const fp of universalSet) { types.set(fp, "universal") }
setUniversal(types, universalSet, i) ==
  IF i > Len(universalSet)
    THEN types
    ELSE setUniversal(MapSet(types, universalSet[i], "universal"), universalSet, i + 1)

computeComponentTypes(ns) ==
  LET clientEntries   == getClientEntries(ns)
      clientReachable == getClientReachable(ns, clientEntries)
      types           == initNodeTypes(ns, clientReachable)
      importers       == collectImporters(ns)
      universalSet    == computeUniversalSet(ns, importers, types)
  IN  setUniversal(types, universalSet, 1)

(***************************************************************************)
(* The earlier variant: classifyComponentTypes, writing node.type in place *)
(***************************************************************************)
RECURSIVE setNodeTypesFrom(_, _, _)
setNodeTypesFrom(ns, clientReachable, i) ==
  IF i > Len(ns.keys)
    THEN ns
    ELSE LET fp == ns.keys[i]
             ty == IF fp \in clientReachable THEN "client" ELSE "server"
         IN  setNodeTypesFrom(MapSet(ns, fp, [MapGet(ns, fp) EXCEPT !.type = ty]),
                              clientReachable, i + 1)

\* for (const [fp, node] of this.nodes) { node.type = reachable ? "client" : "server" }
setNodeTypes(ns, clientReachable) == setNodeTypesFrom(ns, clientReachable, 1)

RECURSIVE isUniversalTypeOfNodesFrom(_, _, _, _, _)
\* The loop of the variant's isUniversalType, reading this.nodes.get(importer)?.type.
isUniversalTypeOfNodesFrom(ns, importers, i, hasClient, hasServer) ==
  IF i > Len(importers)
    THEN FALSE
    ELSE LET t  == IF MapHas(ns, importers[i]) THEN MapGet(ns, importers[i]).type
                                               ELSE "undefined"
             hc == hasClient \/ t = "client"
             hs == hasServer \/ t = "server"
         IN  IF hc /\ hs THEN TRUE
                         ELSE isUniversalTypeOfNodesFrom(ns, importers, i + 1, hc, hs)

isUniversalTypeOfNodes(ns, importers) ==
  isUniversalTypeOfNodesFrom(ns, importers, 1, FALSE, FALSE)

RECURSIVE setUniversalTypesFrom(_, _, _)
\* The loop of setUniversalTypes: each promotion is written into the store the
\* later rounds read the importers' types from.
setUniversalTypesFrom(ns, importers, i) ==
  IF i > Len(ns.keys)
    THEN ns
    ELSE LET fp == ns.keys[i]
         IN  setUniversalTypesFrom(
               IF /\ ~MapGet(ns, fp).isClient
                  /\ MapHas(importers, fp)
                  /\ isUniversalTypeOfNodes(ns, MapGet(importers, fp))
                 THEN MapSet(ns, fp, [MapGet(ns, fp) EXCEPT !.type = "universal"])
                 ELSE ns,
               importers, i + 1)

setUniversalTypes(ns, importers) == setUniversalTypesFrom(ns, importers, 1)

classifyComponentTypes(ns) ==
  LET clientEntries   == getClientEntries(ns)
      clientReachable == getClientReachable(ns, clientEntries)
      typed           == setNodeTypes(ns, clientReachable)
      importers       == collectImporters(typed)
  IN  setUniversalTypes(typed, importers)

(***************************************************************************)
(* files.ts: keeping the ts-morph project in step with the file system     *)
(***************************************************************************)
\* project.getSourceFiles()
getSourceFiles(proj) == SelectSeq(PathOrder, LAMBDA p : p \in DOMAIN proj)

RECURSIVE removeDeletedFilesFrom(_, _, _, _, _)
removeDeletedFilesFrom(sfs, i, proj, ns, fs) ==
  IF i > Len(sfs)
    THEN [project |-> proj, nodes |-> ns]
    ELSE IF sfs[i] \notin DOMAIN fs
           THEN removeDeletedFilesFrom(sfs, i + 1, Without(proj, sfs[i]),
                                       MapDelete(ns, sfs[i]), fs)
           ELSE removeDeletedFilesFrom(sfs, i + 1, proj, ns, fs)

\* removeDeletedFiles that forgets the source files and keeps their nodes.
removeDeletedFilesKeepsNodes(proj, ns, fs) ==
  [project |-> removeDeletedFilesFrom(getSourceFiles(proj), 1, proj, ns, fs).project,
   nodes   |-> ns]

\* removeDeletedFiles that removes nothing.
removeDeletedFilesSkipped(proj, ns, fs) == [project |-> proj, nodes |-> ns]

removeDeletedFiles(proj, ns, fs) ==
  removeDeletedFilesFrom(getSourceFiles(proj), 1, proj, ns, fs)

RECURSIVE addSourceFilesAtPaths(_, _, _, _)
\* project.addSourceFilesAtPaths([root/**/*.ts, root/**/*.tsx, ...negated excludes]):
\* every matching file on disk that the project does not hold yet is read and added;
\* a file it already holds is kept as parsed; a read that fails ends the call with
\* the exception.
addSourceFilesAtPaths(i, proj, uex, fs) ==
  IF i > Len(PathOrder)
    THEN [project |-> proj, threw |-> FALSE]
    ELSE LET p == PathOrder[i]
         IN  IF p \in DOMAIN proj \/ p \notin DOMAIN fs \/ isGlobExcluded(uex, p)
               THEN addSourceFilesAtPaths(i + 1, proj, uex, fs)
               ELSE IF CanRead(fs, p)
                      THEN addSourceFilesAtPaths(i + 1, With(proj, p, fs[p]), uex, fs)
                      ELSE [project |-> proj, threw |-> TRUE]

addAllSourceFiles(proj, uex, fs) == addSourceFilesAtPaths(1, proj, uex, fs)

\* refreshFromFileSystemSync that keeps the text parsed earlier.
refreshFromFileSystemSyncKeepsText(proj, p, fs) == proj

\* sf.refreshFromFileSystemSync(): re-read the file; a file that is gone is forgotten.
refreshFromFileSystemSync(proj, p, fs) ==
  IF CanRead(fs, p) THEN With(proj, p, fs[p])
                    ELSE IF p \in DOMAIN fs THEN proj ELSE Without(proj, p)

\* sf.refreshFromFileSystemSync() throws: the file is there and its read fails.
refreshThrows(p, fs) == p \in DOMAIN fs /\ ~CanRead(fs, p)

\* try { project.addSourceFileAtPath(changed) } catch (_) { /* ignore */ }
addSourceFileAtPath(proj, p, fs) ==
  IF CanRead(fs, p) THEN With(proj, p, fs[p]) ELSE proj

\* The round of refreshChangedFiles without its branch for excluded paths.
refreshChangedFileNoExcludes(st, changed, uex, fs) ==
  IF changed \in DOMAIN st.project /\ refreshThrows(changed, fs)
    THEN [st EXCEPT !.threw = TRUE]
    ELSE [project  |-> IF changed \in DOMAIN st.project
                         THEN refreshFromFileSystemSync(st.project, changed, fs)
                         ELSE addSourceFileAtPath(st.project, changed, fs),
          nodes    |-> st.nodes,
          affected |-> SetAdd(st.affected, changed),
          threw    |-> FALSE]

\* The round of refreshChangedFiles leaving the loop body where the addition fails.
refreshChangedFileSkipsFailedAdd(st, changed, uex, fs) ==
  IF isGlobExcluded(uex, changed)
    THEN [project  |-> Without(st.project, changed),
          nodes    |-> MapDelete(st.nodes, changed),
          affected |-> st.affected,
          threw    |-> FALSE]
    ELSE IF changed \in DOMAIN st.project /\ refreshThrows(changed, fs)
           THEN [st EXCEPT !.threw = TRUE]
           ELSE IF changed \notin DOMAIN st.project /\ ~CanRead(fs, changed)
                  THEN st
                  ELSE [project  |-> IF changed \in DOMAIN st.project
                                       THEN refreshFromFileSystemSync(st.project, changed, fs)
                                       ELSE addSourceFileAtPath(st.project, changed, fs),
                        nodes    |-> st.nodes,
                        affected |-> SetAdd(st.affected, changed),
                        threw    |-> FALSE]

\* One round of the loop of refreshChangedFiles, for the path changed.
refreshChangedFile(st, changed, uex, fs) ==
  IF isGlobExcluded(uex, changed)
    THEN [project  |-> Without(st.project, changed),
          nodes    |-> MapDelete(st.nodes, changed),
          affected |-> st.affected,
          threw    |-> FALSE]
    ELSE IF changed \in DOMAIN st.project /\ refreshThrows(changed, fs)
           THEN [st EXCEPT !.threw = TRUE]
           ELSE [project  |-> IF changed \in DOMAIN st.project
                                THEN refreshFromFileSystemSync(st.project, changed, fs)
                                ELSE addSourceFileAtPath(st.project, changed, fs),
                 nodes    |-> st.nodes,
                 affected |-> SetAdd(st.affected, changed),
                 threw    |-> FALSE]

RECURSIVE refreshChangedFilesFrom(_, _, _, _, _)
refreshChangedFilesFrom(st, changedFiles, i, uex, fs) ==
  IF i > Len(changedFiles) \/ st.threw
    THEN st
    ELSE refreshChangedFilesFrom(refreshChangedFile(st, changedFiles[i], uex, fs),
                                 changedFiles, i + 1, uex, fs)

refreshChangedFiles(proj, ns, changedFiles, affectedFiles, uex, fs) ==
  refreshChangedFilesFrom([project |-> proj, nodes |-> ns, affected |-> affectedFiles,
                           threw |-> FALSE],
                          changedFiles, 1, uex, fs)

RECURSIVE markAllFilesAsAffectedFrom(_, _, _)
markAllFilesAsAffectedFrom(sfs, i, affectedFiles) ==
  IF i > Len(sfs)
    THEN affectedFiles
    ELSE markAllFilesAsAffectedFrom(sfs, i + 1, SetAdd(affectedFiles, sfs[i]))

markAllFilesAsAffected(proj, affectedFiles) ==
  markAllFilesAsAffectedFrom(getSourceFiles(proj), 1, affectedFiles)

(***************************************************************************)
(* index.ts: ComponentEnvGraph                                             *)
(***************************************************************************)
\* The changedFiles argument of build(): not given, or an array of paths.
NoChangedFiles == [given |-> FALSE, files |-> <<>>]

ChangedFiles(files) == [given |-> TRUE, files |-> files]

\* The test of updateProjectSourceFiles without its length check.
IsIncrementalWhenGiven(changedFiles) == changedFiles.given

\* changedFiles && changedFiles.length > 0
IsIncremental(changedFiles) == changedFiles.given /\ Len(changedFiles.files) > 0

\* new Project({ tsConfigFilePath, skipAddingFilesFromTsConfig: false })
newProject(tsc, fs) == [p \in tsc \cap DOMAIN fs |-> fs[p]]

\* One call made by build(), with the parse set and the node store it leaves.
Step(op, proj, ns) == [op |-> op, project |-> proj, nodes |-> ns]

\* updateProjectSourceFiles whose full scan marks the files before it adds them.
updateProjectSourceFilesMarkFirst(proj, ns, changedFiles, uex, fs) ==
  LET removed == removeDeletedFiles(proj, ns, fs)
      first   == Step("removeDeletedFiles", removed.project, removed.nodes)
  IN  IF IsIncremental(changedFiles)
        THEN LET refreshed == refreshChangedFiles(removed.project, removed.nodes,
                                                  changedFiles.files, <<>>, uex, fs)
             IN  [project  |-> refreshed.project,
                  nodes    |-> refreshed.nodes,
                  affected |-> refreshed.affected,
                  threw    |-> refreshed.threw,
                  steps    |-> <<first, Step("refreshChangedFiles", refreshed.project,
                                             refreshed.nodes)>>]
        ELSE LET added == addAllSourceFiles(removed.project, uex, fs)
             IN  [project  |-> added.project,
                  nodes    |-> removed.nodes,
                  affected |-> markAllFilesAsAffected(removed.project, <<>>),
                  threw    |-> added.threw,
                  steps    |-> <<first,
                                 Step("markAllFilesAsAffected", removed.project,
                                      removed.nodes),
                                 Step("addAllSourceFiles", added.project, removed.nodes)>>]

\* updateProjectSourceFiles whose incremental branch marks every file as affected.
updateProjectSourceFilesMarksAll(proj, ns, changedFiles, uex, fs) ==
  LET removed == removeDeletedFiles(proj, ns, fs)
      first   == Step("removeDeletedFiles", removed.project, removed.nodes)
  IN  IF IsIncremental(changedFiles)
        THEN LET refreshed == refreshChangedFiles(removed.project, removed.nodes,
                                                  changedFiles.files, <<>>, uex, fs)
             IN  [project  |-> refreshed.project,
                  nodes    |-> refreshed.nodes,
                  affected |-> IF refreshed.threw
                                 THEN refreshed.affected
                                 ELSE markAllFilesAsAffected(refreshed.project,
                                                             refreshed.affected),
                  threw    |-> refreshed.threw,
                  steps    |-> <<first, Step("refreshChangedFiles", refreshed.project,
                                             refreshed.nodes)>>]
        ELSE LET added == addAllSourceFiles(removed.project, uex, fs)
             IN  [project  |-> added.project,
                  nodes    |-> removed.nodes,
                  affected |-> IF added.threw
                                 THEN <<>>
                                 ELSE markAllFilesAsAffected(added.project, <<>>),
                  threw    |-> added.threw,
                  steps    |-> <<first,
                                 Step("addAllSourceFiles", added.project, removed.nodes)>>
                               \o (IF added.threw
                                     THEN <<>>
                                     ELSE <<Step("markAllFilesAsAffected", added.project,
                                                 removed.nodes)>>)]

\* updateProjectSourceFiles with the deletion pass after the additions and refreshes.
updateProjectSourceFilesDeleteLast(proj, ns, changedFiles, uex, fs) ==
  IF IsIncremental(changedFiles)
    THEN LET refreshed == refreshChangedFiles(proj, ns, changedFiles.files, <<>>, uex, fs)
             removed   == removeDeletedFiles(refreshed.project, refreshed.nodes, fs)
         IN  [project  |-> removed.project,
              nodes    |-> removed.nodes,
              affected |-> refreshed.affected,
              threw    |-> refreshed.threw,
              steps    |-> <<Step("refreshChangedFiles", refreshed.project,
                                  refreshed.nodes)>>
                           \o (IF refreshed.threw
                                 THEN <<>>
                                 ELSE <<Step("removeDeletedFiles", removed.project,
                                             removed.nodes)>>)]
    ELSE LET added   == addAllSourceFiles(proj, uex, fs)
             removed == removeDeletedFiles(added.project, ns, fs)
         IN  [project  |-> removed.project,
              nodes    |-> removed.nodes,
              affected |-> IF added.threw
                             THEN <<>>
                             ELSE markAllFilesAsAffected(removed.project, <<>>),
              threw    |-> added.threw,
              steps    |-> <<Step("addAllSourceFiles", added.project, ns)>>
                           \o (IF added.threw
                                 THEN <<>>
                                 ELSE <<Step("removeDeletedFiles", removed.project,
                                             removed.nodes),
                                        Step("markAllFilesAsAffected", removed.project,
                                             removed.nodes)>>)]

\* updateProjectSourceFiles after this.refreshChangedFiles(changedFiles, affectedFiles):
\* removed is what removeDeletedFiles left, refreshed what refreshChangedFiles left.
updateProjectSourceFilesRefreshed(removed, refreshed) ==
  [project  |-> refreshed.project,
   nodes    |-> refreshed.nodes,
   affected |-> refreshed.affected,
   threw    |-> refreshed.threw,
   steps    |-> <<Step("removeDeletedFiles", removed.project, removed.nodes),
                  Step("refreshChangedFiles", refreshed.project, refreshed.nodes)>>]

\* updateProjectSourceFiles after this.addAllSourceFiles() and
\* this.markAllFilesAsAffected(affectedFiles): added is what addAllSourceFiles left.
updateProjectSourceFilesScanned(removed, added) ==
  [project  |-> added.project,
   nodes    |-> removed.nodes,
   affected |-> IF added.threw THEN <<>> ELSE markAllFilesAsAffected(added.project, <<>>),
   threw    |-> added.threw,
   steps    |-> <<Step("removeDeletedFiles", removed.project, removed.nodes),
                  Step("addAllSourceFiles", added.project, removed.nodes)>>
                \o (IF added.threw
                      THEN <<>>
                      ELSE <<Step("markAllFilesAsAffected", added.project, removed.nodes)>>)]

\* updateProjectSourceFiles after this.removeDeletedFiles()
updateProjectSourceFilesFrom(removed, changedFiles, uex, fs) ==
  IF IsIncremental(changedFiles)
    THEN updateProjectSourceFilesRefreshed(removed,
           refreshChangedFiles(removed.project, removed.nodes, changedFiles.files,
                               <<>>, uex, fs))
    ELSE updateProjectSourceFilesScanned(removed,
           addAllSourceFiles(removed.project, uex, fs))

updateProjectSourceFiles(proj, ns, changedFiles, uex, fs) ==
  updateProjectSourceFilesFrom(removeDeletedFiles(proj, ns, fs), changedFiles, uex, fs)

RECURSIVE updateFileNodesFrom(_, _, _, _, _)
updateFileNodesFrom(filesToUpdate, i, proj, ns, fs) ==
  IF i > Len(filesToUpdate)
    THEN ns
    ELSE LET filePath == filesToUpdate[i]
         IN  updateFileNodesFrom(filesToUpdate, i + 1, proj,
               IF filePath \notin DOMAIN proj
                 THEN MapDelete(ns, filePath)
                 ELSE MapSet(ns, filePath,
                             FileNode(filePath,
                                      hasUseClientDirective(proj[filePath]),
                                      getStaticImports(proj[filePath], fs))),
               fs)

\* updateFileNodes that finds no source file for any path it is given.
updateFileNodesFindsNone(filesToUpdate, proj, ns, fs) ==
  updateFileNodesFrom(filesToUpdate, 1, [p \in {} |-> <<>>], ns, fs)

updateFileNodes(filesToUpdate, proj, ns, fs) ==
  updateFileNodesFrom(filesToUpdate, 1, proj, ns, fs)

\* The type assignment of build() applied to the client-marked nodes only.
assignTypesToClientMarked(ns, types) ==
  [keys |-> ns.keys,
   val  |-> [fp \in DOMAIN ns.val |->
               IF MapHas(types, fp) /\ ns.val[fp].isClient
                 THEN [ns.val[fp] EXCEPT !.type = MapGet(types, fp)]
                 ELSE ns.val[fp]]]

\* for (const [fp, node] of this.nodes) { const type = types.get(fp); if (type) node.type = type }
assignTypes(ns, types) ==
  [keys |-> ns.keys,
   val  |-> [fp \in DOMAIN ns.val |->
               IF MapHas(types, fp)
                 THEN [ns.val[fp] EXCEPT !.type = MapGet(types, fp)]
                 ELSE ns.val[fp]]]

RECURSIVE emit(_, _, _)
\* EventEmitter.emit("update"): the listeners are called in the order they were
\* registered; one that throws ends the call, and the exception leaves emit.
emit(ls, i, calls) ==
  IF i > Len(ls)
    THEN [calls |-> calls, threw |-> FALSE]
    ELSE IF ls[i] = "throws"
           THEN [calls |-> [calls EXCEPT ![i] = @ + 1], threw |-> TRUE]
           ELSE emit(ls, i + 1, [calls EXCEPT ![i] = @ + 1])

\* fireDidUpdate that emits the update event twice.
fireDidUpdateTwice(ls) == emit(ls, 1, emit(ls, 1, [i \in 1..Len(ls) |-> 0]).calls)

fireDidUpdate(ls) == emit(ls, 1, [i \in 1..Len(ls) |-> 0])

\* build() emitting the update event before it classifies.
buildNotifiesFirst(proj, ns, changedFiles, uex, fs) ==
  LET updated == updateProjectSourceFiles(proj, ns, changedFiles, uex, fs)
      fresh   == updateFileNodes(updated.affected, updated.project, updated.nodes, fs)
      types   == computeComponentTypes(fresh)
      typed   == assignTypes(fresh, types)
  IN  [project  |-> updated.project,
       nodes    |-> IF updated.threw THEN updated.nodes ELSE typed,
       affected |-> updated.affected,
       raised   |-> updated.threw,
       steps    |-> updated.steps
                    \o (IF updated.threw
                          THEN <<>>
                          ELSE <<Step("updateFileNodes", updated.project, fresh),
                                 Step("fireDidUpdate", updated.project, fresh),
                                 Step("computeComponentTypes", updated.project, typed)>>)]

\* build(changedFiles) up to the point where the update event is emitted; an
\* exception thrown while the project is brought up to date leaves build() there.
\* build() after the types are written into the nodes: updated is what
\* updateProjectSourceFiles left, fresh the store updateFileNodes left, typed the
\* store with the types assigned.
buildTyped(updated, fresh, typed) ==
  [project  |-> updated.project,
   nodes    |-> IF updated.threw THEN updated.nodes ELSE typed,
   affected |-> updated.affected,
   raised   |-> updated.threw,
   steps    |-> updated.steps
                \o (IF updated.threw
                      THEN <<>>
                      ELSE <<Step("updateFileNodes", updated.project, fresh),
                             Step("computeComponentTypes", updated.project, typed),
                             Step("fireDidUpdate", updated.project, typed)>>)]

\* build() after this.updateFileNodes(filesToUpdate)
buildClassified(updated, fresh) ==
  buildTyped(updated, fresh, assignTypes(fresh, computeComponentTypes(fresh)))

\* build() after this.updateProjectSourceFiles(changedFiles)
buildFrom(updated, fs) ==
  buildClassified(updated,
                  updateFileNodes(updated.affected, updated.project, updated.nodes, fs))

build(proj, ns, changedFiles, uex, fs) ==
  buildFrom(updateProjectSourceFiles(proj, ns, changedFiles, uex, fs), fs)

(***************************************************************************)
(* The engine and its file system as a state machine                       *)
(***************************************************************************)
\* A source file: an optional leading directive, import declarations, a component.
Source(directive, decls) ==
  (IF directive THEN <<UseClientStmt>> ELSE <<>>) \o decls \o <<VariableStmt>>

\* What an edit may write: with or without the directive, importing at most one file.
FileContents ==
  {Source(d, decls) : d \in BOOLEAN,
                      decls \in {<<>>} \cup {<<ImportDecl(t)>> : t \in Paths}}

EmptyDisk == [p \in {} |-> <<>>]

\* The project directories an engine is constructed on.
InitDisks ==
  { EmptyDisk,
    [p \in Paths |->
       CASE p = "Parent.tsx" -> Source(TRUE, <<ImportDecl("vendor/a.tsx")>>)
         [] p = "vendor/a.tsx" -> Source(FALSE, <<>>)
         [] OTHER -> Source(FALSE, <<ImportDecl("vendor/a.tsx")>>)] }

\* tsconfig.json: "include": [] or "include": ["**/*"].
TsIncludes == {{}, Paths}

ChangedFilesArgs ==
  {NoChangedFiles} \cup {ChangedFiles(fs) : fs \in SeqsUpTo(Paths, MaxChanged)}

ListenerKinds == {"returns", "throws"}

NoBuild ==
  [built |-> FALSE, arg |-> NoChangedFiles, completed |-> FALSE, calls |-> <<>>,
   raised |-> FALSE, okNodes |-> EmptyMap,
   listeners |-> <<>>, projectBefore |-> <<>>, nodesBefore |-> EmptyMap,
   diskBefore |-> EmptyDisk, affected |-> <<>>, steps |-> <<>>,
   prevBuilt |-> FALSE, prevArg |-> NoChangedFiles]

NoExtraction == [done |-> FALSE, isClient |-> FALSE]

NoClassifierRun ==
  /\ cnodes = EmptyMap
  /\ ctypes = EmptyMap
  /\ cdone = FALSE
  /\ stext = <<>>
  /\ extracted = NoExtraction

Init ==
  /\ disk \in InitDisks
  /\ tsInclude \in TsIncludes
  /\ userExclude \in UserExcludes
  /\ project = newProject(tsInclude, disk)
  /\ nodes = EmptyMap
  /\ listeners = <<>>
  /\ last = NoBuild
  /\ builtDisk = disk
  /\ numBuilds = 0
  /\ numEdits = 0
  /\ NoClassifierRun

\* fs.writeFileSync(path, content)
WriteFile(p, src) ==
  /\ numEdits < MaxEdits
  /\ numBuilds < MaxBuilds
  /\ IF p \in DOMAIN disk THEN disk[p] # src ELSE TRUE
  /\ disk' = With(disk, p, src)
  /\ numEdits' = numEdits + 1
  /\ UNCHANGED <<tsInclude, userExclude, project, nodes, listeners, last, builtDisk,
                 numBuilds, cnodes, ctypes, cdone, stext, extracted>>

\* fs.rmSync(path)
RemoveFile(p) ==
  /\ numEdits < MaxEdits
  /\ numBuilds < MaxBuilds
  /\ p \in DOMAIN disk
  /\ disk' = Without(disk, p)
  /\ numEdits' = numEdits + 1
  /\ UNCHANGED <<tsInclude, userExclude, project, nodes, listeners, last, builtDisk,
                 numBuilds, cnodes, ctypes, cdone, stext, extracted>>

\* fs.chmodSync(path, 0): the file stays where it is and can no longer be read.
MakeUnreadable(p) ==
  /\ numEdits < MaxEdits
  /\ numBuilds < MaxBuilds
  /\ CanRead(disk, p)
  /\ disk' = With(disk, p, Unreadable)
  /\ numEdits' = numEdits + 1
  /\ UNCHANGED <<tsInclude, userExclude, project, nodes, listeners, last, builtDisk,
                 numBuilds, cnodes, ctypes, cdone, stext, extracted>>

\* graph.onDidUpdate(listener)
onDidUpdate(listener) ==
  /\ Len(listeners) < MaxListeners
  /\ listeners' = Append(listeners, listener)
  /\ UNCHANGED <<disk, tsInclude, userExclude, project, nodes, last, builtDisk,
                 numBuilds, numEdits, cnodes, ctypes, cdone, stext, extracted>>

\* graph.build(changedFiles)
Build(changedFiles) ==
  /\ numBuilds < MaxBuilds
  /\ \E b \in {build(project, nodes, changedFiles, userExclude, disk)} :
       \E e \in {IF b.raised
                   THEN [calls |-> [i \in 1..Len(listeners) |-> 0], threw |-> FALSE]
                   ELSE fireDidUpdate(listeners)} :
         /\ project' = b.project
         /\ nodes' = b.nodes
         /\ last' = [built |-> TRUE, arg |-> changedFiles,
                     completed |-> ~b.raised /\ ~e.threw,
                     raised |-> b.raised,
                     okNodes |-> IF ~b.raised /\ ~e.threw THEN b.nodes ELSE last.okNodes,
                     calls |-> e.calls, listeners |-> listeners,
                     projectBefore |-> project, nodesBefore |-> nodes,
                     diskBefore |-> builtDisk,
                     affected |-> b.affected,
                     steps |-> b.steps,
                     prevBuilt |-> last.built, prevArg |-> last.arg]
  /\ builtDisk' = disk
  /\ numBuilds' = numBuilds + 1
  /\ UNCHANGED <<disk, tsInclude, userExclude, listeners, numEdits, cnodes, ctypes, cdone, stext, extracted>>

Next ==
  \/ \E p \in Paths, src \in FileContents : WriteFile(p, src)
  \/ \E p \in Paths : RemoveFile(p)
  \/ \E cf \in ChangedFilesArgs : Build(cf)

Spec == Init /\ [][Next]_vars

\* The same engine with listeners being registered, on an unchanging file system.
NextNotify ==
  \/ \E l \in ListenerKinds : onDidUpdate(l)
  \/ \E cf \in ChangedFilesArgs : Build(cf)

SpecNotify == Init /\ [][NextNotify]_vars

\* The same engine with listeners being registered while files are removed.
NextNotifyEdits ==
  \/ \E l \in ListenerKinds : onDidUpdate(l)
  \/ \E p \in Paths : RemoveFile(p)
  \/ \E cf \in ChangedFilesArgs : Build(cf)

SpecNotifyEdits == Init /\ [][NextNotifyEdits]_vars

\* The same engine on a file system where files vanish, lose their read permission
\* or are saved with a syntax error.
NextFaults ==
  \/ \E p \in Paths : WriteFile(p, InvalidSource)
  \/ \E p \in Paths : MakeUnreadable(p)
  \/ \E p \in Paths : RemoveFile(p)
  \/ \E cf \in ChangedFilesArgs : Build(cf)

SpecFaults == Init /\ [][NextFaults]_vars

\* What an edit writes into an index file: export * from "<target>", with or without
\* the directive.
ReexportContents ==
  {Source(d, <<ExportDecl(t)>>) : d \in BOOLEAN, t \in {"Parent.tsx", "vendor/a.tsx"}}

\* The same engine on files that re-export other files.
NextReexport ==
  \/ \E p \in Paths, src \in ReexportContents : WriteFile(p, src)
  \/ \E cf \in ChangedFilesArgs : Build(cf)

SpecReexport == Init /\ [][NextReexport]_vars

(***************************************************************************)
(* The classifier alone, on every node store within the bounds             *)
(***************************************************************************)
\* The files of the classifier's test cases.
ClassifyPaths == {"a.tsx", "b.tsx", "c.tsx", "d.tsx"}

ClassifyOrder == <<"a.tsx", "b.tsx", "c.tsx", "d.tsx">>

\* The imports list of node p, when the import declarations of the whole store are
\* listed as <<importer, target>> pairs.
ImportsOf(edges, p) ==
  LET own == SelectSeq(edges, LAMBDA e : e[1] = p)
  IN  [i \in 1..Len(own) |-> own[i][2]]

\* The node store on the files S, with the directive where c says and the import
\* declarations edges; a target that is no node of the store is a dangling import.
NodeStore(S, c, edges) ==
  [keys |-> SelectSeq(ClassifyOrder, LAMBDA p : p \in S),
   val  |-> [p \in S |-> FileNode(p, c[p], ImportsOf(edges, p))]]

InitClassify ==
  /\ \E S \in SUBSET ClassifyPaths :
       \E c \in [S -> BOOLEAN], edges \in SeqsUpTo(S \X ClassifyPaths, MaxEdges) :
         cnodes = NodeStore(S, c, edges)
  /\ ctypes = EmptyMap
  /\ cdone = FALSE
  /\ stext = <<>>
  /\ extracted = NoExtraction
  /\ disk = EmptyDisk
  /\ tsInclude = {}
  /\ userExclude = <<>>
  /\ project = newProject({}, EmptyDisk)
  /\ nodes = EmptyMap
  /\ listeners = <<>>
  /\ last = NoBuild
  /\ builtDisk = EmptyDisk
  /\ numBuilds = 0
  /\ numEdits = 0

\* computeComponentTypes as the variant that writes each type into its node.
computeComponentTypesInPlace(ns) ==
  [nodes |-> assignTypes(ns, computeComponentTypes(ns)),
   types |-> computeComponentTypes(ns)]

\* The call computeComponentTypes(nodes): the store it leaves behind, which it only
\* reads (a ReadonlyMap), and the map it returns.
computeComponentTypesCall(ns) == [nodes |-> ns, types |-> computeComponentTypes(ns)]

\* const types = computeComponentTypes(nodes)
Classify ==
  /\ ~cdone
  /\ cnodes' = computeComponentTypesCall(cnodes).nodes
  /\ ctypes' = computeComponentTypesCall(cnodes).types
  /\ cdone' = TRUE
  /\ UNCHANGED <<disk, tsInclude, userExclude, project, nodes, listeners, last,
                 builtDisk, numBuilds, numEdits, stext, extracted>>

NextClassify == Classify

SpecClassify == InitClassify /\ [][NextClassify]_vars

\* The node store on the files S, with the directive where c says and one import
\* declaration per pair <<importer, target>> of E, each node's in the files' order.
NodeStoreOfEdges(S, c, E) ==
  [keys |-> SelectSeq(ClassifyOrder, LAMBDA p : p \in S),
   val  |-> [p \in S |->
               FileNode(p, c[p], SelectSeq(ClassifyOrder, LAMBDA t : <<p, t>> \in E))]]

\* The classifier on the stores with up to MaxImports import declarations overall.
InitClassifyEdges ==
  /\ \E S \in SUBSET ClassifyPaths :
       \E c \in [S -> BOOLEAN], E \in SUBSET (S \X ClassifyPaths) :
         /\ Cardinality(E) <= MaxImports
         /\ cnodes = NodeStoreOfEdges(S, c, E)
  /\ ctypes = EmptyMap
  /\ cdone = FALSE
  /\ stext = <<>>
  /\ extracted = NoExtraction
  /\ disk = EmptyDisk
  /\ tsInclude = {}
  /\ userExclude = <<>>
  /\ project = newProject({}, EmptyDisk)
  /\ nodes = EmptyMap
  /\ listeners = <<>>
  /\ last = NoBuild
  /\ builtDisk = EmptyDisk
  /\ numBuilds = 0
  /\ numEdits = 0

SpecClassifyEdges == InitClassifyEdges /\ [][NextClassify]_vars

\* this.classifyComponentTypes() of the earlier variant, on its node store
ClassifyInPlace ==
  /\ ~cdone
  /\ cnodes' = classifyComponentTypes(cnodes)
  /\ cdone' = TRUE
  /\ UNCHANGED <<ctypes, disk, tsInclude, userExclude, project, nodes, listeners, last,
                 builtDisk, numBuilds, numEdits, stext, extracted>>

NextClassifyInPlace == ClassifyInPlace

\* The in-place classifier on the stores with up to MaxImports import declarations.
SpecClassifyInPlace == InitClassifyEdges /\ [][NextClassifyInPlace]_vars

(***************************************************************************)
(* The directive extractor alone, on every short source text               *)
(***************************************************************************)
\* A comment: trivia between the statements of a file, not a statement.
Comment == [kind |-> "Comment", text |-> "// note"]

\* What a line of a source text may be.
SourceItems ==
  { Comment,
    Stmt("ExpressionStatement", "'use client'"),
    Stmt("ExpressionStatement", "\"use client\""),
    Stmt("ExpressionStatement", "'use client';"),
    UseClientStmt,
    Stmt("ExpressionStatement", "(\"use client\");"),
    Stmt("ExpressionStatement", "\"use strict\";"),
    ImportDecl("a.tsx"),
    VariableStmt }

\* sf.getStatements(): the top-level statements of the text, its comments left out.
getStatements(text) == SelectSeq(text, LAMBDA item : item.kind # "Comment")

InitExtract ==
  /\ stext \in SeqsUpTo(SourceItems, MaxItems)
  /\ extracted = NoExtraction
  /\ cnodes = EmptyMap
  /\ ctypes = EmptyMap
  /\ cdone = FALSE
  /\ disk = EmptyDisk
  /\ tsInclude = {}
  /\ userExclude = <<>>
  /\ project = newProject({}, EmptyDisk)
  /\ nodes = EmptyMap
  /\ listeners = <<>>
  /\ last = NoBuild
  /\ builtDisk = EmptyDisk
  /\ numBuilds = 0
  /\ numEdits = 0

\* const isClient = hasUseClientDirective(sf)
Extract ==
  /\ ~extracted.done
  /\ extracted' = [done |-> TRUE, isClient |-> hasUseClientDirective(getStatements(stext))]
  /\ UNCHANGED <<stext, cnodes, ctypes, cdone, disk, tsInclude, userExclude, project,
                 nodes, listeners, last, builtDisk, numBuilds, numEdits>>

NextExtract == Extract

SpecExtract == InitExtract /\ [][NextExtract]_vars

(***************************************************************************)
(* Claims                                                                  *)
(***************************************************************************)
\* Two node stores with the same keys and the same isClient, imports and type per node.
SameSnapshot(m1, m2) == m1.val = m2.val

Excluded(p) == isGlobExcluded(userExclude, p)

\* The node store of an engine freshly constructed on the file system fs and built once.
FreshNodes(fs) ==
  build(newProject(tsInclude, fs), EmptyMap, NoChangedFiles, userExclude, fs).nodes

\* The file p differs (added, modified or deleted) between the file systems fs1 and fs2.
Differs(fs1, fs2, p) ==
  IF p \in DOMAIN fs1
    THEN IF p \in DOMAIN fs2 THEN fs1[p] # fs2[p] ELSE TRUE
    ELSE p \in DOMAIN fs2

LastWasIncremental == last.built /\ IsIncremental(last.arg)

\* C1: no path that matches an exclusion pattern is a key of the node store.
C1_NoExcludedNode == \A p \in Paths : Excluded(p) => ~MapHas(nodes, p)

\* No key of the store m matches an exclusion pattern.
NoExcludedKey(m) == \A p \in MapKeySet(m) : ~Excluded(p)

\* C2: an incremental build that is told of every added, modified or deleted
\* non-excluded file, on a store that matched the file system before those changes,
\* leaves the store a freshly constructed engine's full scan produces; read for the
\* runs in which neither of the stores compared holds an excluded file.
C2_IncrementalMatchesFresh ==
  ( /\ LastWasIncremental
    /\ SameSnapshot(last.nodesBefore, FreshNodes(last.diskBefore))
    /\ NoExcludedKey(last.nodesBefore)
    /\ NoExcludedKey(FreshNodes(builtDisk))
    /\ \A p \in Paths : (~Excluded(p) /\ Differs(last.diskBefore, builtDisk, p))
                          => p \in Range(last.arg.files) )
  => SameSnapshot(nodes, FreshNodes(builtDisk))

\* The node q was there before the last build, is not excluded, its file is unchanged
\* since the build before, carries the directive and imports p in its source.
ClientImporterOf(q, p) ==
  /\ q # p
  /\ ~Excluded(q)
  /\ MapHas(last.nodesBefore, q)
  /\ MapGet(last.nodesBefore, q).isClient
  /\ q \in DOMAIN builtDisk
  /\ ~Differs(last.diskBefore, builtDisk, q)
  /\ hasUseClientDirective(builtDisk[q])
  /\ ImportDecl(p) \in Range(builtDisk[q])

\* The file p was created since the build before and named in the last build's changedFiles.
CreatedAndReported(p) ==
  /\ LastWasIncremental
  /\ p \in Range(last.arg.files)
  /\ ~Excluded(p)
  /\ p \notin DOMAIN last.diskBefore
  /\ p \in DOMAIN builtDisk

\* C3: a created, reported, non-excluded file is a node after the build, and is typed
\* client (as is its importer) when an already-present client-marked file imports it.
C3_CreatedFileIsClient ==
  \A p \in Paths :
    CreatedAndReported(p) =>
      /\ MapHas(nodes, p)
      /\ \A q \in Paths :
           ClientImporterOf(q, p) =>
             /\ MapGet(nodes, p).type = "client"
             /\ MapHas(nodes, q) /\ MapGet(nodes, q).type = "client"

\* The file p was on disk at the build before, is gone, and was named in the last
\* build's changedFiles.
RemovedAndReported(p) ==
  /\ last.built
  /\ p \in Range(last.arg.files)
  /\ p \in DOMAIN last.diskBefore
  /\ p \notin DOMAIN builtDisk

\* C4: a file removed from disk and named in changedFiles is no node after the build.
C4_RemovedFileIsNoNode == \A p \in Paths : RemovedAndReported(p) => ~MapHas(nodes, p)

C4_Witness ==
  \E p \in Paths :
    RemovedAndReported(p) /\ MapHas(last.nodesBefore, p) /\ ~MapHas(nodes, p)

\* The last two calls were build() without changedFiles, with no file-system change between.
TwoFullScansInARow ==
  /\ last.built /\ ~last.arg.given
  /\ last.prevBuilt /\ ~last.prevArg.given
  /\ last.diskBefore = builtDisk

\* C5: build() twice in a row with no file change gives the same node-store snapshot.
C5_FullScanIdempotent == TwoFullScansInARow => SameSnapshot(nodes, last.nodesBefore)

C5_Witness ==
  /\ TwoFullScansInARow
  /\ Cardinality(MapKeySet(nodes)) >= 2
  /\ SameSnapshot(nodes, last.nodesBefore)

\* C6: in a build() that completes, each registered listener is called exactly once.
C6_EachListenerOncePerBuild ==
  (last.built /\ last.completed) =>
    /\ Len(last.calls) = Len(last.listeners)
    /\ \A i \in 1..Len(last.listeners) : last.calls[i] = 1

C6_Witness ==
  /\ LastWasIncremental /\ last.completed
  /\ Len(last.listeners) = 2
  /\ \A i \in 1..2 : last.calls[i] = 1
  /\ MapKeySet(nodes) # {}
  /\ nodes = last.nodesBefore

\* C7: a listener that throws does not make build() raise, the other listeners are
\* still called, and the node store is as built.
C7_ThrowingListenerIsolated ==
  (last.built /\ \E i \in 1..Len(last.listeners) : last.listeners[i] = "throws") =>
    /\ last.completed
    /\ \A i \in 1..Len(last.listeners) : last.calls[i] = 1
    /\ nodes = build(last.projectBefore, last.nodesBefore, last.arg,
                     userExclude, builtDisk).nodes

(***************************************************************************)
(* Claims about the classifier                                             *)
(***************************************************************************)
Keys == MapKeySet(cnodes)

Imports(a, b) == b \in Range(MapGet(cnodes, a).imports)

IsClient(a) == MapGet(cnodes, a).isClient

TypeOf(a) == MapGet(ctypes, a)

HasImporterTyped(t, ty) == \E a \in Keys : Imports(a, t) /\ TypeOf(a) = ty

\* C8: a node that is not client-marked and has an importer typed client and an
\* importer typed server is typed universal.
C8_FanInIsUniversal ==
  cdone =>
    \A t \in Keys :
      (~IsClient(t) /\ HasImporterTyped(t, "client") /\ HasImporterTyped(t, "server"))
        => TypeOf(t) = "universal"

C8_Witness ==
  /\ cdone
  /\ Keys = {"a.tsx", "b.tsx", "c.tsx"}
  /\ IsClient("a.tsx") /\ ~IsClient("b.tsx") /\ ~IsClient("c.tsx")
  /\ MapGet(cnodes, "a.tsx").imports = <<"b.tsx">>
  /\ MapGet(cnodes, "c.tsx").imports = <<"b.tsx">>
  /\ MapGet(cnodes, "b.tsx").imports = <<>>
  /\ TypeOf("a.tsx") = "client" /\ TypeOf("c.tsx") = "server"
  /\ TypeOf("b.tsx") = "universal"

\* A -> B -> C is an import chain between nodes, B and C are other nodes than A, and
\* A alone carries the directive.
ChainFromOnlyClient(A, B, C) ==
  /\ B # A /\ C # A
  /\ Imports(A, B) /\ Imports(B, C)
  /\ \A n \in Keys : IsClient(n) <=> n = A

\* C9 as stated: on such a chain A, B and C are all typed client.
C9_ChainAllClient ==
  cdone =>
    \A A \in Keys, B \in Keys, C \in Keys :
      ChainFromOnlyClient(A, B, C) =>
        TypeOf(A) = "client" /\ TypeOf(B) = "client" /\ TypeOf(C) = "client"

\* C9 as amended: on such a chain A is typed client, and B and C are each typed
\* client unless a node typed server imports them too, and universal if one does.
C9_ChainClientOrUniversal ==
  cdone =>
    \A A \in Keys, B \in Keys, C \in Keys :
      ChainFromOnlyClient(A, B, C) =>
        /\ TypeOf(A) = "client"
        /\ \A X \in {B, C} :
             TypeOf(X) = IF HasImporterTyped(X, "server") THEN "universal" ELSE "client"

C9_Witness ==
  /\ cdone
  /\ Keys = ClassifyPaths
  /\ ChainFromOnlyClient("a.tsx", "b.tsx", "c.tsx")
  /\ Imports("d.tsx", "b.tsx")
  /\ TypeOf("a.tsx") = "client" /\ TypeOf("b.tsx") = "universal"
  /\ TypeOf("c.tsx") = "client" /\ TypeOf("d.tsx") = "server"

\* C10: a node whose own file carries the directive is typed client.
C10_ClientMarkedIsClient ==
  cdone => \A n \in Keys : IsClient(n) => TypeOf(n) = "client"

C10_Witness ==
  /\ cdone
  /\ \E n \in Keys :
       /\ IsClient(n)
       /\ HasImporterTyped(n, "client") /\ HasImporterTyped(n, "server")
       /\ TypeOf(n) = "client"

RECURSIVE ImportClosure(_, _)
\* The nodes reached from the set R of nodes along at most n import edges.
ImportClosure(R, n) ==
  IF n = 0
    THEN R
    ELSE ImportClosure(R \cup {b \in Keys : \E a \in R : Imports(a, b)}, n - 1)

\* Some client-marked node reaches the node t along import edges (or is t).
ClientReaches(t) ==
  t \in ImportClosure({a \in Keys : IsClient(a)}, Cardinality(ClassifyPaths))

\* Two nodes that import each other and that no client-marked node reaches are server.
CycleMembersServer ==
  \A a \in Keys, b \in Keys :
    (Imports(a, b) /\ Imports(b, a) /\ ~ClientReaches(a) /\ ~ClientReaches(b))
      => TypeOf(a) = "server" /\ TypeOf(b) = "server"

\* C11: on a node store with import cycles or self-imports the classifier returns a
\* type for every node, and two nodes that import each other and that nothing
\* client-marked reaches are both typed server.
C11_CyclesTerminateAsServer ==
  cdone => (MapKeySet(ctypes) = Keys /\ CycleMembersServer)

C11_Witness ==
  /\ cdone
  /\ Keys = {"a.tsx", "b.tsx", "c.tsx"}
  /\ Imports("a.tsx", "b.tsx") /\ Imports("b.tsx", "a.tsx")
  /\ Imports("c.tsx", "c.tsx") /\ IsClient("c.tsx")
  /\ TypeOf("a.tsx") = "server" /\ TypeOf("b.tsx") = "server"

\* The store m without the nodes of excluded files.
WithoutExcluded(m) ==
  [keys |-> SelectSeq(m.keys, LAMBDA k : ~Excluded(k)),
   val  |-> [k \in {q \in DOMAIN m.val : ~Excluded(q)} |-> m.val[k]]]

\* C12: an excluded file never counts as an importer: after a build every node of a
\* non-excluded file has the type it gets when the store is classified without the
\* excluded files.
C12_ExcludedNeverImporter ==
  last.built =>
    \A n \in MapKeySet(nodes) :
      ~Excluded(n) =>
        MapGet(nodes, n).type = MapGet(computeComponentTypes(WithoutExcluded(nodes)), n)

\* The last build was build([.., p, ..]) for a non-excluded file p that is on disk.
RebuiltExisting(p) ==
  /\ LastWasIncremental
  /\ p \in Range(last.arg.files)
  /\ ~Excluded(p)
  /\ p \in DOMAIN builtDisk

\* Every node of the store m carries the type the classifier computes from m.
TypesRecomputed(m) ==
  \A n \in MapKeySet(m) : MapGet(m, n).type = MapGet(computeComponentTypes(m), n)

WithoutDanglingEdges(m) ==
  [keys |-> m.keys,
   val  |-> [k \in DOMAIN m.val |->
               [m.val[k] EXCEPT !.imports = SelectSeq(@, LAMBDA t : MapHas(m, t))]]]

\* The types of the store m are those the classifier gives m without its dangling edges.
DanglingEdgesInert(m) ==
  \A n \in MapKeySet(m) :
    MapGet(m, n).type = MapGet(computeComponentTypes(WithoutDanglingEdges(m)), n)

\* C14: an import edge whose target is not a node changes no type, and an excluded
\* file that a non-excluded node imports is not a node.
C14_DanglingEdgeInert ==
  last.built =>
    /\ DanglingEdgesInert(nodes)
    /\ \A q \in MapKeySet(nodes) :
         ~Excluded(q) =>
           \A t \in Range(MapGet(nodes, q).imports) : Excluded(t) => ~MapHas(nodes, t)

ComponentType == {"client", "server", "universal"}

\* C15: after a completed build every node of the store has a type, one of client,
\* server and universal.
C15_EveryNodeTyped ==
  (last.built /\ last.completed) =>
    \A n \in MapKeySet(nodes) : MapGet(nodes, n).type \in ComponentType

C15_Witness ==
  /\ last.built /\ last.completed
  /\ \E n \in MapKeySet(nodes) :
       ~MapHas(last.nodesBefore, n) /\ MapGet(nodes, n).type = "server"
  /\ \E n \in MapKeySet(nodes) :
       MapHas(last.nodesBefore, n) /\ MapGet(nodes, n).type = "client"

\* C16: after a build, in either mode, every node is the node of a file that was on
\* disk at that build, whether or not a vanished file was named in changedFiles.
C16_NoNodeForVanishedFile ==
  last.built => \A n \in MapKeySet(nodes) : n \in DOMAIN builtDisk

\* A file that had a node vanished and was not named in the incremental build.
C16_Witness ==
  /\ LastWasIncremental /\ last.completed
  /\ \E p \in MapKeySet(last.nodesBefore) :
       /\ p \in DOMAIN last.diskBefore
       /\ p \notin DOMAIN builtDisk
       /\ p \notin Range(last.arg.files)
       /\ ~MapHas(nodes, p)
  /\ MapKeySet(nodes) # {}

\* Reading p at the last build met a transient file error: the file had vanished or
\* could not be read.
TransientError(p) == ~CanRead(builtDisk, p)

\* C17: a transient file error on a path named in changedFiles, already registered
\* or new, does not make build() raise: the build completes and fires the update.
C17_TransientErrorSkipped ==
  \A p \in Paths :
    ( /\ LastWasIncremental
      /\ p \in Range(last.arg.files)
      /\ ~Excluded(p)
      /\ TransientError(p) )
    => (~last.raised /\ last.completed)

\* The last build analysed the file p and found it syntactically invalid.
AnalysedInvalid(p) ==
  /\ last.built
  /\ p \in Range(last.affected)
  /\ p \in DOMAIN project
  /\ project[p] = InvalidSource

\* C18: a file that is syntactically invalid when it is analysed does not abort the
\* build and has no node after it.
C18_InvalidFileHasNoNode ==
  \A p \in Paths : AnalysedInvalid(p) => (last.completed /\ ~MapHas(nodes, p))

\* C19: after a build() that raised, the node store is the one the last build()
\* that completed left.
C19_FailedBuildLeavesStore ==
  (last.built /\ ~last.completed) => nodes = last.okNodes

(***************************************************************************)
(* Claims about the directive extractor                                    *)
(***************************************************************************)
\* The item is a bare 'use client' or "use client" literal, with or without semicolon.
IsDirectiveLiteral(item) ==
  /\ item.kind = "ExpressionStatement"
  /\ item.text \in {"'use client'", "\"use client\"", "'use client';", "\"use client\";"}

\* C20 as stated: a file is client-marked iff the directive literal is the first thing
\* in it; behind a comment or another statement it does not count.
C20_DirectiveFirstInFile ==
  extracted.done =>
    (extracted.isClient <=> (Len(stext) > 0 /\ IsDirectiveLiteral(stext[1])))

\* C20 as amended: a file is client-marked iff its first statement is the directive
\* literal; comments before it are no statements and change nothing, and the
\* directive at a later statement position does not count.
C20_DirectiveFirstStatement ==
  extracted.done =>
    LET stmts == getStatements(stext)
    IN  /\ extracted.isClient <=> (Len(stmts) > 0 /\ IsDirectiveLiteral(stmts[1]))
        /\ (Len(stmts) > 1 /\ ~IsDirectiveLiteral(stmts[1])) => ~extracted.isClient

C20_Witness ==
  /\ extracted.done
  /\ stext = <<Comment, UseClientStmt, VariableStmt>>
  /\ extracted.isClient

(***************************************************************************)
(* Claims about re-exports                                                 *)
(***************************************************************************)
\* The statements sf with every re-export turned into an import of the same file.
AsImports(sf) ==
  [i \in 1..Len(sf) |->
     IF sf[i].kind = "ExportDeclaration" THEN ImportDecl(sf[i].text) ELSE sf[i]]

\* The last build analysed the file q, which re-exports the file p that is on disk.
AnalysedReexport(q, p) ==
  /\ last.built
  /\ q \in Range(last.affected)
  /\ MapHas(nodes, q)
  /\ q \in DOMAIN project
  /\ ExportDecl(p) \in Range(project[q])
  /\ p \in DOMAIN builtDisk

\* C21: a re-export is an import edge: the node of a file that re-exports p has the
\* imports it would have had it imported p, and when that file is client-marked p
\* is reached by client propagation: as a node it is never typed server, and it is
\* typed client unless a server-typed node imports it too.
C21_ReexportIsImportEdge ==
  \A q \in Paths, p \in Paths :
    AnalysedReexport(q, p) =>
      /\ MapGet(nodes, q).imports = getStaticImports(AsImports(project[q]), builtDisk)
      /\ p \in Range(MapGet(nodes, q).imports)
      /\ (MapGet(nodes, q).isClient /\ MapHas(nodes, p)) =>
           /\ MapGet(nodes, p).type # "server"
           /\ (\A r \in MapKeySet(nodes) :
                 p \in Range(MapGet(nodes, r).imports) => MapGet(nodes, r).type # "server")
               => MapGet(nodes, p).type = "client"

C21_Witness ==
  \E q \in Paths, p \in Paths :
    /\ q # p
    /\ AnalysedReexport(q, p)
    /\ MapGet(nodes, q).isClient
    /\ MapHas(nodes, p)
    /\ ~MapGet(nodes, p).isClient
    /\ MapGet(nodes, p).type = "client"

(***************************************************************************)
(* Claims about promotion                                                  *)
(***************************************************************************)
\* The baseline type of a node: client iff a client-marked node reaches it.
Baseline(t) == IF ClientReaches(t) THEN "client" ELSE "server"

HasImporterOfBaseline(t, ty) == \E a \in Keys : Imports(a, t) /\ Baseline(a) = ty

\* The single-pass reference: whether the node t is promoted to universal.
Promoted(t) ==
  /\ ~IsClient(t)
  /\ HasImporterOfBaseline(t, "client")
  /\ HasImporterOfBaseline(t, "server")

\* C22: a node is typed universal iff it is not client-marked and has an importer of
\* baseline client and an importer of baseline server, and every other node gets
\* its baseline type; no promotion depends on another node's promotion.
C22_MatchesSinglePassReference ==
  cdone =>
    \A t \in Keys : TypeOf(t) = IF Promoted(t) THEN "universal" ELSE Baseline(t)

\* A promoted node u imports t; t is promoted on u's baseline type client.
C22_Witness ==
  /\ cdone
  /\ \E u \in Keys, t \in Keys :
       /\ u # t
       /\ Imports(u, t)
       /\ TypeOf(u) = "universal"
       /\ TypeOf(t) = "universal"
       /\ \A a \in Keys : (Imports(a, t) /\ a # u) => Baseline(a) = "server"
\* A node of resulting type universal imports the different node t, not client-marked.
UniversalImporterOf(u, t) ==
  /\ u \in Keys
  /\ t \in Keys
  /\ u # t
  /\ Imports(u, t)
  /\ TypeOf(u) = "universal"
  /\ ~IsClient(t)

\* C23 as stated: an importer of resulting type universal counts neither as a client
\* importer nor as a server importer, so every promoted node has an importer of
\* resulting type client and one of resulting type server.
C23_UniversalImporterCountsAsNeither ==
  cdone =>
    \A t \in Keys :
      TypeOf(t) = "universal" => (HasImporterTyped(t, "client") /\ HasImporterTyped(t, "server"))

\* C23 amended: an importer of resulting type universal counts with its baseline
\* type, which is client: a node it imports is promoted iff the node also has an
\* importer of type server, and keeps the type client otherwise.
C23_UniversalImporterCountsAsClient ==
  cdone =>
    \A u \in Keys, t \in Keys :
      UniversalImporterOf(u, t) =>
        /\ Baseline(u) = "client"
        /\ TypeOf(t) = IF HasImporterTyped(t, "server") THEN "universal" ELSE "client"

\* t is promoted on a universal importer and a server importer alone.
C23_Witness ==
  /\ cdone
  /\ \E u \in Keys, t \in Keys :
       /\ UniversalImporterOf(u, t)
       /\ TypeOf(t) = "universal"
       /\ ~HasImporterTyped(t, "client")

(***************************************************************************)
(* Claims about the order of the calls inside build()                      *)
(***************************************************************************)
\* The positions of the calls of the operations ops in the last build().
StepsOf(ops) == {i \in 1..Len(last.steps) : last.steps[i].op \in ops}

AdditionSteps == StepsOf({"refreshChangedFiles", "addAllSourceFiles"})

DeletionSteps == StepsOf({"removeDeletedFiles"})

NodeSteps == StepsOf({"updateFileNodes"})

\* C24 as stated: in every build() the deletion pass runs exactly once, after the
\* additions and refreshes of the call and before any node is recomputed.
C24_DeletionPassAfterAdditions ==
  last.built =>
    /\ Cardinality(DeletionSteps) = 1
    /\ \A d \in DeletionSteps :
         /\ \A a \in AdditionSteps : a < d
         /\ \A n \in NodeSteps : d < n

\* C24 amended: in every build() the deletion pass runs exactly once, as the first
\* call, on the parse set and the node store the previous build left: before the
\* additions and refreshes of the call and before any node is recomputed.
C24_DeletionPassFirst ==
  last.built =>
    /\ DeletionSteps = {1}
    /\ last.steps[1].project =
         [p \in DOMAIN last.projectBefore \cap DOMAIN builtDisk |-> last.projectBefore[p]]
    /\ MapKeySet(last.steps[1].nodes) =
         MapKeySet(last.nodesBefore)
           \ (DOMAIN last.projectBefore \ DOMAIN builtDisk)
    /\ AdditionSteps = {2}
    /\ \A n \in NodeSteps : n > 2

\* A build whose deletion pass evicted a file that the later calls then saw gone.
C24_Witness ==
  /\ last.built
  /\ last.completed
  /\ NodeSteps # {}
  /\ DOMAIN last.steps[1].project # DOMAIN last.projectBefore
  /\ MapKeySet(last.steps[1].nodes) # MapKeySet(last.nodesBefore)

\* The last build was build([.., p, ..]), it ran to its end, and its refresh step
\* left p registered in the parse set.
Registered(p) ==
  /\ LastWasIncremental
  /\ ~last.raised
  /\ p \in Range(last.arg.files)
  /\ Len(last.steps) >= 2
  /\ last.steps[2].op = "refreshChangedFiles"
  /\ p \in DOMAIN last.steps[2].project

ExcludedAndReported(p) ==
  /\ LastWasIncremental
  /\ ~last.raised
  /\ p \in Range(last.arg.files)
  /\ Excluded(p)

FailedToRegister(p) ==
  /\ LastWasIncremental
  /\ p \in Range(last.arg.files)
  /\ ~Excluded(p)
  /\ p \notin DOMAIN builtDisk
  /\ p \notin DOMAIN last.steps[1].project
  /\ \A q \in Range(last.arg.files) : q \in DOMAIN builtDisk => CanRead(builtDisk, q)

NotifySteps == StepsOf({"fireDidUpdate"})

\* The last build() invoked at least one listener.
ListenersRan == last.built /\ \E i \in 1..Len(last.calls) : last.calls[i] > 0

\* C29: listeners run only after reclassification: the store they see holds a node
\* for exactly the affected paths this build registered, none for an affected path
\* it did not, and every node in it carries the type computed from that store.
C29_ListenersSeeClassifiedStore ==
  ListenersRan =>
    /\ NotifySteps = {Len(last.steps)}
    /\ \A i \in NotifySteps :
         LET seen == last.steps[i].nodes
         IN  /\ seen = nodes
             /\ \A p \in Range(last.affected) : MapHas(seen, p) <=> p \in DOMAIN project
             /\ \A p \in DOMAIN last.projectBefore \ DOMAIN builtDisk : ~MapHas(seen, p)
             /\ \A p \in MapKeySet(seen) : MapGet(seen, p).type \in ComponentType
             /\ TypesRecomputed(seen)

\* A listener ran in a build that deleted one node and kept another, typed.
C29_Witness ==
  /\ ListenersRan
  /\ \E p \in Paths, q \in Paths :
       /\ MapHas(last.nodesBefore, p)
       /\ ~MapHas(last.steps[Len(last.steps)].nodes, p)
       /\ MapHas(last.steps[Len(last.steps)].nodes, q)
       /\ MapGet(last.steps[Len(last.steps)].nodes, q).type \in ComponentType

\* C30: after every build(), incremental as well as full, the type of every node is
\* the one computeComponentTypes gives for the whole current store; no node keeps
\* a type that is stale with respect to the store.
C30_TypesMatchWholeStore ==
  last.built => TypesRecomputed(nodes)

\* The types match the whole store after every build() that returns.
C30_TypesMatchAfterReturn ==
  (last.built /\ ~last.raised) => TypesRecomputed(nodes)

(***************************************************************************)
(* Claims about full scans and the frame of incremental builds             *)
(***************************************************************************)
\* The last call was a full scan: build() or build([]).
LastWasFullScan == last.built /\ ~IsIncremental(last.arg)

\* C31: a full scan is history-independent: whatever builds and file changes came
\* before, the store after build() is the one a freshly constructed engine produces
\* on the same file system; read for the runs in which neither store holds an
\* excluded file.
C31_FullScanMatchesFresh ==
  ( /\ LastWasFullScan
    /\ ~last.raised
    /\ NoExcludedKey(nodes)
    /\ NoExcludedKey(FreshNodes(builtDisk)) )
  => SameSnapshot(nodes, FreshNodes(builtDisk))

\* The last build was incremental and the path q was not listed in changedFiles.
Unlisted(q) == LastWasIncremental /\ q \notin Range(last.arg.files)

ImportsAsSet(imports) == SelectSeq(ClassifyOrder, LAMBDA t : t \in Range(imports))

\* The store ns with every imports list replaced by its set: all the stores that
\* differ only in the order or multiplicity of imports share this store.
WithImportsAsSets(ns) ==
  [keys |-> ns.keys,
   val  |-> [p \in DOMAIN ns.val |->
               [ns.val[p] EXCEPT !.imports = ImportsAsSet(ns.val[p].imports)]]]

\* C33: the types do not depend on the order or multiplicity of the entries of any
\* imports list: a store gets the types of the store with its imports lists as sets.
C33_ImportsOrderIrrelevant ==
  cdone => ctypes = computeComponentTypes(WithImportsAsSets(cnodes))

\* A client-marked node lists two nodes out of order and one of them twice.
C33_Witness ==
  /\ cdone
  /\ \E a \in Keys :
       LET imports == MapGet(cnodes, a).imports
       IN  /\ IsClient(a)
           /\ Cardinality(Range(imports) \cap Keys) >= 2
           /\ Len(imports) > Cardinality(Range(imports))
           /\ imports[1] # ImportsAsSet(imports)[1]
           /\ \A t \in Range(imports) : t # a /\ TypeOf(t) = "client"

\* The last call was build([]): changedFiles given as an empty array.
LastWasEmptyArray == last.built /\ last.arg.given /\ Len(last.arg.files) = 0

\* What build() without an argument makes of the engine the last build started on.
AsFullScan == build(last.projectBefore, last.nodesBefore, NoChangedFiles, userExclude, builtDisk)

\* C34: build([]) behaves exactly like build(): it performs a full scan and marks
\* every file of the parse set as affected.
C34_EmptyArrayIsFullScan ==
  LastWasEmptyArray =>
    /\ project = AsFullScan.project
    /\ nodes = AsFullScan.nodes
    /\ last.affected = AsFullScan.affected
    /\ last.raised = AsFullScan.raised
    /\ last.steps = AsFullScan.steps
    /\ ~last.raised =>
         /\ Range(last.affected) = DOMAIN project
         /\ StepsOf({"addAllSourceFiles"}) # {}

\* build([]) found a file written since the build before and made it a node.
C34_Witness ==
  /\ LastWasEmptyArray
  /\ last.completed
  /\ \E p \in Paths :
       /\ p \notin DOMAIN last.projectBefore
       /\ p \in Range(last.affected)
       /\ MapHas(nodes, p)
  /\ Cardinality(MapKeySet(nodes)) >= 2

RECURSIVE ReachIn(_, _, _)
\* The nodes of the store m reached from the set R within n import edges between nodes.
ReachIn(m, R, n) ==
  IF n = 0
    THEN R
    ELSE ReachIn(m, R \cup {b \in MapKeySet(m) :
                              \E a \in R : b \in Range(MapGet(m, a).imports)}, n - 1)

\* The nodes of m that some client-marked node of m reaches (or that are one).
ClientReachableIn(m) ==
  ReachIn(m, {a \in MapKeySet(m) : MapGet(m, a).isClient}, Cardinality(MapKeySet(m)))

\* Server is the type of exactly the nodes of m that no client-marked node reaches.
ServerIffUnreachable(m) ==
  \A n \in MapKeySet(m) :
    /\ MapGet(m, n).type = "server" <=> n \notin ClientReachableIn(m)
    /\ MapGet(m, n).type = "universal" => n \in ClientReachableIn(m)

\* C35: after any build a node is typed server iff no client-marked node reaches it
\* through import edges between nodes; so every universal node is client-reachable.
C35_ServerIffUnreachable ==
  last.built => ServerIffUnreachable(nodes)

\* Server is the type of exactly the unreached nodes after every build() that returns.
C35_ServerIffUnreachableAfterReturn ==
  (last.built /\ ~last.raised) => ServerIffUnreachable(nodes)

\* The orders in which a Map with the keys of the store ns can have been filled.
KeyOrders(ns) ==
  {ks \in [1..Len(ns.keys) -> MapKeySet(ns)] :
     \A i \in 1..Len(ns.keys), j \in 1..Len(ns.keys) : ks[i] = ks[j] => i = j}

\* The store ns with the same nodes, inserted in the order ks.
InsertedAs(ns, ks) == [keys |-> ks, val |-> ns.val]

\* C36: the result of computeComponentTypes is determined by the nodes and their
\* isClient and imports alone: a store with the same content in any other Map
\* insertion order gets the same type for every node.
C36_InsertionOrderIrrelevant ==
  cdone =>
    \A ks \in KeyOrders(cnodes) :
      SameSnapshot(computeComponentTypes(InsertedAs(cnodes, ks)), ctypes)

\* A store of four nodes with twenty-four insertion orders, in which a universal
\* node imports another universal node.
C36_Witness ==
  /\ cdone
  /\ Cardinality(KeyOrders(cnodes)) = 24
  /\ \E u \in Keys, t \in Keys :
       /\ UniversalImporterOf(u, t)
       /\ TypeOf(t) = "universal"

\* C37: the in-place classifier of the earlier variant gives every node the type
\* the pure computeComponentTypes gives it, for every store and iteration order.
C37_InPlaceMatchesPure ==
  cdone =>
    \A p \in Keys : MapGet(cnodes, p).type = MapGet(computeComponentTypes(cnodes), p)

\* C38: after every completed build() every key of the node store has a live parse
\* representation in the parse set: a file dropped from the parse set, by the
\* deletion pass, by exclusion or by a refresh, loses its node in the same build.
C38_EveryNodeHasSourceFile ==
  (last.built /\ last.completed) =>
    /\ MapKeySet(nodes) \subseteq DOMAIN project
    /\ \A p \in DOMAIN last.projectBefore \ DOMAIN project : ~MapHas(nodes, p)

\* A completed build dropped a file that was a node from the parse set, and kept
\* another node.
C38_Witness ==
  /\ last.built
  /\ last.completed
  /\ \E p \in Paths, q \in Paths :
       /\ p \in DOMAIN last.projectBefore
       /\ MapHas(last.nodesBefore, p)
       /\ p \notin DOMAIN project
       /\ ~MapHas(nodes, p)
       /\ MapHas(nodes, q)
       /\ q \in DOMAIN project

====
